---- MODULE Spec2Model ----
(***************************************************************************)
(* Error taxonomy and diagnostic synthesis of nickel (src/src/error.rs),   *)
(* driven by a host that catches an error and reports it (mi/src/main.rs). *)
(*                                                                         *)
(* Strings are TLA+ strings: format! is concatenation (\o), String::len is *)
(* Len (all modelled texts are ASCII, so byte length = character count).   *)
(* The source registry (codespan Files<String>) is a sequence of entries;  *)
(* a FileId is the 1-based index of its entry.                             *)
(***************************************************************************)
EXTENDS Integers, Sequences, FiniteSets, TLC

VARIABLES files, err, diag, grown

vars == <<files, err, diag, grown>>

(***************************************************************************)
(* Bounds                                                                  *)
(***************************************************************************)
\* The registry holds at most this many entries (one real source + synthetic).
MaxFiles == 4

(***************************************************************************)
(* Option, spans, labels, diagnostics                                      *)
(***************************************************************************)
None == [some |-> FALSE]

Some(v) == [some |-> TRUE, val |-> v]

RawSpan(src_id, start, end) == [src_id |-> src_id, start |-> start, end |-> end]

Range(start, end) == [start |-> start, end |-> end]

Label_new(style, file_id, range) ==
    [style |-> style, file_id |-> file_id, range |-> range, message |-> ""]

Label_primary(file_id, range) == Label_new("Primary", file_id, range)

Label_secondary(file_id, range) == Label_new("Secondary", file_id, range)

Label_with_message(label, message) == [label EXCEPT !.message = message]

Diagnostic_error ==
    [severity |-> "Error", message |-> "", labels |-> <<>>, notes |-> <<>>]

with_message(d, message) == [d EXCEPT !.message = message]

with_labels(d, labels) == [d EXCEPT !.labels = labels]

with_notes(d, notes) == [d EXCEPT !.notes = notes]

\* Files::add: the new entry goes at the end, its id is returned.
files_add(fs, name, source) ==
    [id |-> Len(fs) + 1,
     files |-> Append(fs, [name |-> name, source |-> source])]

SyntheticName == "<unkown> (generated by evaluation)"

(***************************************************************************)
(* Formatting                                                              *)
(***************************************************************************)
Digit(d) == <<"0", "1", "2", "3", "4", "5", "6", "7", "8", "9">>[d + 1]

RECURSIVE usize_to_string(_)
usize_to_string(n) ==
    IF n < 10 THEN Digit(n)
    ELSE usize_to_string(n \div 10) \o Digit(n % 10)

\* A type path is the sequence of its constructors from the outside in;
\* <<>> is TyPath::Nil().
TyPath_Nil == <<>>

RECURSIVE TyPath_debug(_)
TyPath_debug(path) ==
    IF path = TyPath_Nil THEN "Nil"
    ELSE Head(path) \o "(" \o TyPath_debug(Tail(path)) \o ")"

\* A term is its shallow representation, its type name if known, and its
\* optional position.
RichTerm(repr, ty, pos) == [repr |-> repr, ty |-> ty, pos |-> pos]

shallow_repr(t) == t.repr

type_of(t) == t.ty

unwrap_or(opt, default) == IF opt.some THEN opt.val ELSE default

(***************************************************************************)
(* Label helpers                                                           *)
(***************************************************************************)
primary(span) == Label_primary(span.src_id, Range(span.start, span.end))

secondary(span) == Label_secondary(span.src_id, Range(span.start, span.end))

\* label_alt registering the alternative text whether or not a position exists.
label_alt_eager(span_opt, alt_term, style, fs) ==
    LET added == files_add(fs, SyntheticName, alt_term)
    IN  IF span_opt.some
        THEN [label |-> Label_new(style, span_opt.val.src_id,
                                  Range(span_opt.val.start, span_opt.val.end)),
              files |-> added.files]
        ELSE [label |-> Label_new(style, added.id, Range(1, Len(alt_term))),
              files |-> added.files]

\* label_alt storing the alternative text over the registry's last entry.
label_alt_overwrite(span_opt, alt_term, style, fs) ==
    IF span_opt.some
    THEN [label |-> Label_new(style, span_opt.val.src_id,
                              Range(span_opt.val.start, span_opt.val.end)),
          files |-> fs]
    ELSE [label |-> Label_new(style, Len(fs), Range(1, Len(alt_term))),
          files |-> [fs EXCEPT ![Len(fs)] =
                        [name |-> SyntheticName, source |-> alt_term]]]

\* label_alt reusing a synthetic entry that already holds the same text.
label_alt_cached(span_opt, alt_term, style, fs) ==
    LET entry == [name |-> SyntheticName, source |-> alt_term]
        hits  == {i \in 1..Len(fs) : fs[i] = entry}
    IN  IF span_opt.some
        THEN [label |-> Label_new(style, span_opt.val.src_id,
                                  Range(span_opt.val.start, span_opt.val.end)),
              files |-> fs]
        ELSE IF hits # {}
        THEN [label |-> Label_new(style, CHOOSE i \in hits : TRUE,
                                  Range(1, Len(alt_term))),
              files |-> fs]
        ELSE [label |-> Label_new(style, Len(fs) + 1, Range(1, Len(alt_term))),
              files |-> Append(fs, entry)]

\* label_alt returning an identifier one past the entry it added.
label_alt_stale_id(span_opt, alt_term, style, fs) ==
    IF span_opt.some
    THEN [label |-> Label_new(style, span_opt.val.src_id,
                              Range(span_opt.val.start, span_opt.val.end)),
          files |-> fs]
    ELSE [label |-> Label_new(style, Len(fs) + 2, Range(1, Len(alt_term))),
          files |-> Append(fs, [name |-> SyntheticName, source |-> alt_term])]

label_alt(span_opt, alt_term, style, fs) ==
    IF span_opt.some
    THEN [label |-> Label_new(style, span_opt.val.src_id,
                              Range(span_opt.val.start, span_opt.val.end)),
          files |-> fs]
    ELSE LET range == Range(1, Len(alt_term))
             added == files_add(fs, SyntheticName, alt_term)
         IN  [label |-> Label_new(style, added.id, range),
              files |-> added.files]

primary_alt(span_opt, alt_term, fs) == label_alt(span_opt, alt_term, "Primary", fs)

primary_term(term, fs) == primary_alt(term.pos, shallow_repr(term), fs)

secondary_alt(span_opt, alt_term, fs) == label_alt(span_opt, alt_term, "Secondary", fs)

(***************************************************************************)
(* Error values                                                            *)
(***************************************************************************)
BlameLabel(tag, polarity, path, span) ==
    [tag |-> tag, polarity |-> polarity, path |-> path, span |-> span]

BlameError(l, cs_opt) == [variant |-> "BlameError", l |-> l, cs_opt |-> cs_opt]

TypeError(expd, msg, t) == [variant |-> "TypeError", expd |-> expd, msg |-> msg, t |-> t]

NotAFunc(t, arg, pos_opt) ==
    [variant |-> "NotAFunc", t |-> t, arg |-> arg, pos_opt |-> pos_opt]

FieldMissing(field, op, t, span_opt) ==
    [variant |-> "FieldMissing", field |-> field, op |-> op, t |-> t,
     span_opt |-> span_opt]

NotEnoughArgs(count, op, span_opt) ==
    [variant |-> "NotEnoughArgs", count |-> count, op |-> op, span_opt |-> span_opt]

MergeIncompatibleArgs(t1, t2, span_opt) ==
    [variant |-> "MergeIncompatibleArgs", t1 |-> t1, t2 |-> t2, span_opt |-> span_opt]

UnboundIdentifier(ident, span_opt) ==
    [variant |-> "UnboundIdentifier", ident |-> ident, span_opt |-> span_opt]

Other(msg, span_opt) == [variant |-> "Other", msg |-> msg, span_opt |-> span_opt]

ParseError(msg) == [variant |-> "ParseError", msg |-> msg]

\* impl From<EvalError> for Error
Error_from(error) == [variant |-> "EvalError", error |-> error]

(***************************************************************************)
(* EvalError::to_diagnostic, one operator per match arm.  Each returns the *)
(* diagnostic and the registry as the call leaves it.                      *)
(***************************************************************************)
\* The BlameError arm with the two polarity texts exchanged.
to_diagnostic_BlameError_flipped(e, fs) ==
    LET l    == e.l
        msg0 == "Blame error: [" \o l.tag \o "]."
        msg1 == IF l.polarity
                THEN msg0 \o "  The blame is on the context (negative blame)\n"
                ELSE msg0 \o "  The blame is on the value (positive blame)\n"
        msg2 == IF l.path # TyPath_Nil THEN msg1 \o TyPath_debug(l.path) ELSE msg1
    IN  [diag |-> with_labels(
                      with_message(Diagnostic_error, msg2),
                      <<Label_with_message(
                            Label_primary(l.span.src_id,
                                          Range(l.span.start, l.span.end)),
                            "bound here")>>),
         files |-> fs]

to_diagnostic_BlameError(e, fs) ==
    LET l    == e.l
        msg0 == "Blame error: [" \o l.tag \o "]."
        msg1 == IF l.polarity
                THEN msg0 \o "  The blame is on the value (positive blame)\n"
                ELSE msg0 \o "  The blame is on the context (negative blame)\n"
        msg2 == IF l.path # TyPath_Nil THEN msg1 \o TyPath_debug(l.path) ELSE msg1
    IN  [diag |-> with_labels(
                      with_message(Diagnostic_error, msg2),
                      <<Label_with_message(
                            Label_primary(l.span.src_id,
                                          Range(l.span.start, l.span.end)),
                            "bound here")>>),
         files |-> fs]

to_diagnostic_TypeError(e, fs) ==
    LET label == "This expression has type "
                     \o unwrap_or(type_of(e.t), "<unevaluated>")
                     \o ", but " \o e.expd \o " was expected"
        l1    == primary_term(e.t, fs)
    IN  [diag |-> with_notes(
                      with_labels(
                          with_message(Diagnostic_error, "Type error"),
                          <<Label_with_message(l1.label, label)>>),
                      <<e.msg>>),
         files |-> l1.files]

to_diagnostic_NotAFunc(e, fs) ==
    LET l1 == primary_term(e.t, fs)
        l2 == secondary_alt(e.pos_opt,
                            "(" \o shallow_repr(e.t) \o ") ("
                                \o shallow_repr(e.arg) \o ")",
                            l1.files)
    IN  [diag |-> with_labels(
                      with_message(Diagnostic_error, "Not a function"),
                      <<Label_with_message(
                            l1.label,
                            "this term is applied, but it is not a function"),
                        Label_with_message(l2.label, "applied here")>>),
         files |-> l2.files]

\* The notes vector is filled when span_opt is None but is never handed to
\* the diagnostic: only with_message and with_labels are called.
to_diagnostic_FieldMissing(e, fs) ==
    LET labels0 == IF e.span_opt.some
                   THEN <<Label_with_message(
                              Label_primary(e.span_opt.val.src_id,
                                            Range(e.span_opt.val.start,
                                                  e.span_opt.val.end)),
                              "this requires field " \o e.field \o " to exist")>>
                   ELSE <<>>
        notes   == IF e.span_opt.some
                   THEN <<>>
                   ELSE <<"Field " \o e.field
                              \o " was required by the operator " \o e.op>>
        labels  == IF e.t.pos.some
                   THEN Append(labels0,
                               Label_with_message(
                                   secondary(e.t.pos.val),
                                   "field " \o e.field \o " is missing here"))
                   ELSE labels0
    IN  [diag |-> with_labels(
                      with_message(Diagnostic_error, "Missing field"),
                      labels),
         files |-> fs]

\* The NotEnoughArgs arm pushing the text as a note in both branches.
to_diagnostic_NotEnoughArgs_both(e, fs) ==
    LET msg    == e.op \o " expects " \o usize_to_string(e.count)
                      \o " arguments, but not enough were provided"
        labels == IF e.span_opt.some
                  THEN <<Label_with_message(
                             Label_primary(e.span_opt.val.src_id,
                                           Range(e.span_opt.val.start,
                                                 e.span_opt.val.end)),
                             msg)>>
                  ELSE <<>>
        notes  == <<msg>>
    IN  [diag |-> with_notes(
                      with_labels(
                          with_message(Diagnostic_error, "Not enough arguments"),
                          labels),
                      notes),
         files |-> fs]

to_diagnostic_NotEnoughArgs(e, fs) ==
    LET msg    == e.op \o " expects " \o usize_to_string(e.count)
                      \o " arguments, but not enough were provided"
        labels == IF e.span_opt.some
                  THEN <<Label_with_message(
                             Label_primary(e.span_opt.val.src_id,
                                           Range(e.span_opt.val.start,
                                                 e.span_opt.val.end)),
                             msg)>>
                  ELSE <<>>
        notes  == IF e.span_opt.some THEN <<>> ELSE <<msg>>
    IN  [diag |-> with_notes(
                      with_labels(
                          with_message(Diagnostic_error, "Not enough arguments"),
                          labels),
                      notes),
         files |-> fs]

to_diagnostic_MergeIncompatibleArgs(e, fs) ==
    LET l1      == primary_term(e.t1, fs)
        l2      == primary_term(e.t2, l1.files)
        labels0 == <<Label_with_message(l1.label, "cannot merge this expression"),
                     Label_with_message(l2.label, "with this expression")>>
        labels  == IF e.span_opt.some
                   THEN Append(labels0,
                               Label_with_message(secondary(e.span_opt.val),
                                                  "merged here"))
                   ELSE labels0
    IN  [diag |-> with_labels(
                      with_message(Diagnostic_error, "Non mergeable terms"),
                      labels),
         files |-> l2.files]

to_diagnostic_UnboundIdentifier(e, fs) ==
    LET l1 == primary_alt(e.span_opt, e.ident, fs)
    IN  [diag |-> with_labels(
                      with_message(Diagnostic_error, "Unbound identifier"),
                      <<Label_with_message(l1.label, "this identifier is unbound")>>),
         files |-> l1.files]

to_diagnostic_Other(e, fs) ==
    LET labels == IF e.span_opt.some
                  THEN <<Label_with_message(primary(e.span_opt.val), "here")>>
                  ELSE <<>>
    IN  [diag |-> with_labels(with_message(Diagnostic_error, e.msg), labels),
         files |-> fs]

EvalError_to_diagnostic(e, fs) ==
    CASE e.variant = "BlameError"            -> to_diagnostic_BlameError(e, fs)
      [] e.variant = "TypeError"             -> to_diagnostic_TypeError(e, fs)
      [] e.variant = "NotAFunc"              -> to_diagnostic_NotAFunc(e, fs)
      [] e.variant = "FieldMissing"          -> to_diagnostic_FieldMissing(e, fs)
      [] e.variant = "NotEnoughArgs"         -> to_diagnostic_NotEnoughArgs(e, fs)
      [] e.variant = "MergeIncompatibleArgs" -> to_diagnostic_MergeIncompatibleArgs(e, fs)
      [] e.variant = "UnboundIdentifier"     -> to_diagnostic_UnboundIdentifier(e, fs)
      [] e.variant = "Other"                 -> to_diagnostic_Other(e, fs)

Error_to_diagnostic(error, fs) ==
    IF error.variant = "ParseError"
    THEN [diag |-> with_message(Diagnostic_error, "While parsing: " \o error.msg),
          files |-> fs]
    ELSE EvalError_to_diagnostic(error.error, fs)

(***************************************************************************)
(* Inputs: the errors the evaluator and the parser hand to the host        *)
(***************************************************************************)
HELLO_NCL == "\n{ hello = \"hello, nickel world!\" }\n"

\* SpanA lies in the source the host registered; SpanB names a source id
\* that is registered only once the registry has grown.
SpanA == RawSpan(1, 2, 7)

SpanB == RawSpan(2, 0, 1)

Spans == {SpanA, SpanB}

OptSpans == {None} \cup {Some(s) : s \in Spans}

Values == {[repr |-> "2", ty |-> Some("Num")], [repr |-> "f x", ty |-> None]}

Terms == {RichTerm(v.repr, v.ty, p) : v \in Values, p \in {None, Some(SpanA)}}

ArgTerms == {RichTerm("2", Some("Num"), None)}

Tags == {"T", "U"}

TyPaths == {TyPath_Nil, <<"Domain", "Codomain">>}

CallStacks == {None, Some(<<>>)}

Names == {"f", "g"}

Ops == {".", "hasField"}

Counts == {0, 2, 10}

Idents == {"", "x"}

Msgs == {"", "oops"}

BlameErrors ==
    {BlameError(BlameLabel(tag, pol, path, span), cs) :
        tag \in Tags, pol \in BOOLEAN, path \in TyPaths, span \in Spans,
        cs \in CallStacks}

TypeErrors == {TypeError(expd, msg, t) : expd \in {"Num", "Str"}, msg \in Ops, t \in Terms}

NotAFuncs == {NotAFunc(t, arg, pos) : t \in Terms, arg \in ArgTerms, pos \in OptSpans}

FieldMissings ==
    {FieldMissing(field, op, t, pos) :
        field \in Names, op \in Ops, t \in Terms, pos \in OptSpans}

NotEnoughArgss == {NotEnoughArgs(n, op, pos) : n \in Counts, op \in Ops, pos \in OptSpans}

MergeIncompatibleArgss ==
    {MergeIncompatibleArgs(t1, t2, pos) : t1 \in Terms, t2 \in Terms, pos \in OptSpans}

UnboundIdentifiers == {UnboundIdentifier(i, pos) : i \in Idents, pos \in OptSpans}

Others == {Other(msg, pos) : msg \in Msgs, pos \in OptSpans}

EvalErrors ==
    BlameErrors \cup TypeErrors \cup NotAFuncs \cup FieldMissings
        \cup NotEnoughArgss \cup MergeIncompatibleArgss
        \cup UnboundIdentifiers \cup Others

(***************************************************************************)
(* The host: it registers its source, runs the fallible operations, and on *)
(* failure asks for the diagnostic of the error it holds.                  *)
(***************************************************************************)
Init ==
    /\ files = <<[name |-> "hello-string", source |-> HELLO_NCL]>>
    /\ err = None
    /\ diag = None
    /\ grown = 0

\* prog.parse_field_path returns Err: the host now holds a parse error.
parse_field_path_Err ==
    /\ err = None
    /\ \E msg \in Msgs : err' = Some(ParseError(msg))
    /\ diag' = None
    /\ grown' = 0
    /\ UNCHANGED files

\* prog.eval_full_for_export returns Err: the host now holds an evaluation
\* error, wrapped by From<EvalError>.
eval_full_for_export_Err ==
    /\ err = None
    /\ \E e \in EvalErrors : err' = Some(Error_from(e))
    /\ diag' = None
    /\ grown' = 0
    /\ UNCHANGED files

\* <Error as ToDiagnostic>::to_diagnostic on the held error.
Call_Error_to_diagnostic ==
    /\ err.some
    /\ LET r == Error_to_diagnostic(err.val, files)
       IN  /\ Len(r.files) <= MaxFiles
           /\ files' = r.files
           /\ diag' = Some(r.diag)
           /\ grown' = Len(r.files) - Len(files)
    /\ UNCHANGED err

\* <EvalError as ToDiagnostic>::to_diagnostic on the evaluation error the
\* held error wraps.
Call_EvalError_to_diagnostic ==
    /\ err.some
    /\ err.val.variant = "EvalError"
    /\ LET r == EvalError_to_diagnostic(err.val.error, files)
       IN  /\ Len(r.files) <= MaxFiles
           /\ files' = r.files
           /\ diag' = Some(r.diag)
           /\ grown' = Len(r.files) - Len(files)
    /\ UNCHANGED err

\* The error has been reported: the host drops it and its diagnostic.
report_done ==
    /\ err.some
    /\ diag.some
    /\ err' = None
    /\ diag' = None
    /\ grown' = 0
    /\ UNCHANGED files

Next ==
    \/ parse_field_path_Err
    \/ eval_full_for_export_Err
    \/ Call_Error_to_diagnostic
    \/ Call_EvalError_to_diagnostic
    \/ report_done

Spec == Init /\ [][Next]_vars

(***************************************************************************)
(* Vocabulary of the properties                                            *)
(***************************************************************************)
\* A step in which to_diagnostic runs on the held error.
IsCall == err.some /\ err' = err /\ diag'.some

\* The evaluation error the host holds, if it holds one.
HoldsEval(variant) ==
    err.some /\ err.val.variant = "EvalError" /\ err.val.error.variant = variant

Contains(s, sub) ==
    \E i \in 1..(Len(s) - Len(sub) + 1) : SubSeq(s, i, i + Len(sub) - 1) = sub

StartsWith(s, prefix) ==
    Len(prefix) <= Len(s) /\ SubSeq(s, 1, Len(prefix)) = prefix

EndsWith(s, suffix) ==
    Len(suffix) <= Len(s) /\ SubSeq(s, Len(s) - Len(suffix) + 1, Len(s)) = suffix

\* The annotation sites of an error, in label order: the optional position
\* of each, and the alternative text to anchor when the position is absent
\* (None where the variant has no synthetic-anchor fallback).
Slot(pos, alt) == [pos |-> pos, alt |-> alt]

Slots(error) ==
    IF error.variant = "ParseError" THEN <<>>
    ELSE LET e == error.error IN
         CASE e.variant = "BlameError" -> <<Slot(Some(e.l.span), None)>>
           [] e.variant = "TypeError" -> <<Slot(e.t.pos, Some(e.t.repr))>>
           [] e.variant = "NotAFunc" ->
                <<Slot(e.t.pos, Some(e.t.repr)),
                  Slot(e.pos_opt, Some("(" \o e.t.repr \o ") (" \o e.arg.repr \o ")"))>>
           [] e.variant = "FieldMissing" ->
                <<Slot(e.span_opt, None), Slot(e.t.pos, None)>>
           [] e.variant = "NotEnoughArgs" -> <<Slot(e.span_opt, None)>>
           [] e.variant = "MergeIncompatibleArgs" ->
                <<Slot(e.t1.pos, Some(e.t1.repr)), Slot(e.t2.pos, Some(e.t2.repr)),
                  Slot(e.span_opt, None)>>
           [] e.variant = "UnboundIdentifier" -> <<Slot(e.span_opt, Some(e.ident))>>
           [] e.variant = "Other" -> <<Slot(e.span_opt, None)>>

IsLabelled(slot) == slot.pos.some \/ slot.alt.some

IsFallback(slot) == ~slot.pos.some /\ slot.alt.some

\* The sites that get a label, and how many of them need a synthetic anchor.
LabelledSlots(error) == SelectSeq(Slots(error), IsLabelled)

NumFallback(slots) == Len(SelectSeq(slots, IsFallback))

\* Every position the error carries.
AttachedSpans(error) ==
    {Slots(error)[i].pos.val : i \in {j \in 1..Len(Slots(error)) : Slots(error)[j].pos.some}}
        \cup (IF error.variant = "EvalError" /\ error.error.variant = "NotAFunc"
                  /\ error.error.arg.pos.some
              THEN {error.error.arg.pos.val} ELSE {})

NoFallbackVariants == {"BlameError", "FieldMissing", "NotEnoughArgs", "Other"}

\* C1: for every EvalError variant and payload, the diagnostic has a
\* non-empty message and at least one label or note.
C1_Totality ==
    (err.some /\ err.val.variant = "EvalError" /\ diag.some) =>
        /\ diag.val.message # ""
        /\ Len(diag.val.labels) + Len(diag.val.notes) >= 1

\* C2: each labelling of an absent position adds exactly one registry entry
\* holding the alternative text, and the label's start and end lie within
\* 0..length of that text, the empty text included.
C2_SyntheticAnchorInBounds ==
    [][IsCall =>
        LET ps == LabelledSlots(err.val)
            ls == diag'.val.labels
        IN  /\ Len(ls) = Len(ps)
            /\ Len(files') - Len(files) = NumFallback(ps)
            /\ \A i \in 1..Len(ps) :
                 IsFallback(ps[i]) =>
                    LET id  == Len(files) + NumFallback(SubSeq(ps, 1, i))
                        txt == ps[i].alt.val
                    IN  /\ ls[i].file_id = id
                        /\ files'[id].source = txt
                        /\ ls[i].range.start \in 0..Len(txt)
                        /\ ls[i].range.end \in 0..Len(txt)]_vars

\* C3: a site with a real position is labelled with exactly that position's
\* source id and range, and labelling it adds nothing to the registry.
C3_RealPositionExact ==
    [][IsCall =>
        LET ps == LabelledSlots(err.val)
            ls == diag'.val.labels
        IN  /\ Len(ls) = Len(ps)
            /\ \A i \in 1..Len(ps) :
                 ps[i].pos.some =>
                    /\ ls[i].file_id = ps[i].pos.val.src_id
                    /\ ls[i].range = Range(ps[i].pos.val.start, ps[i].pos.val.end)
            /\ Len(files') - Len(files) <= NumFallback(ps)
            /\ (NumFallback(ps) = 0 => files' = files)]_vars

C3_Witness ==
    /\ HoldsEval("NotAFunc")
    /\ err.val.error.t.pos = Some(SpanA)
    /\ ~err.val.error.pos_opt.some
    /\ diag.some
    /\ diag.val.labels[1].file_id = SpanA.src_id
    /\ grown = 1

\* Errors of the same variant that differ from e in exactly one field.
OneFieldApart(e) ==
    {e2 \in EvalErrors :
        /\ e2.variant = e.variant
        /\ Cardinality({f \in DOMAIN e : e[f] # e2[f]}) = 1}

\* C4: no evidence field is discarded: two errors that differ in one
\* evidence field only give diagnostics that differ in labels or notes.
C4_NoEvidenceDiscarded ==
    [][(IsCall /\ err.val.variant = "EvalError") =>
        \A e2 \in OneFieldApart(err.val.error) :
            LET d2 == EvalError_to_diagnostic(e2, files).diag
            IN  <<d2.labels, d2.notes>> # <<diag'.val.labels, diag'.val.notes>>]_vars

\* C5: FieldMissing has a primary label at pos when pos is present and
\* otherwise a note naming the field and the operator; a secondary label at
\* the term's position when it has one; with no position at all, no labels
\* and at least one note.
C5_FieldMissingShape ==
    (HoldsEval("FieldMissing") /\ diag.some) =>
        LET e == err.val.error
            d == diag.val
        IN  /\ IF e.span_opt.some
               THEN /\ Len(d.labels) >= 1
                    /\ d.labels[1] =
                         [style |-> "Primary", file_id |-> e.span_opt.val.src_id,
                          range |-> Range(e.span_opt.val.start, e.span_opt.val.end),
                          message |-> "this requires field " \o e.field \o " to exist"]
                    /\ Cardinality({i \in 1..Len(d.labels) :
                                        d.labels[i].style = "Primary"}) = 1
               ELSE \E i \in 1..Len(d.notes) :
                        Contains(d.notes[i], e.field) /\ Contains(d.notes[i], e.op)
            /\ e.t.pos.some =>
                 \E i \in 1..Len(d.labels) :
                     /\ d.labels[i].style = "Secondary"
                     /\ d.labels[i].file_id = e.t.pos.val.src_id
                     /\ d.labels[i].range = Range(e.t.pos.val.start, e.t.pos.val.end)
            /\ (~e.span_opt.some /\ ~e.t.pos.some) =>
                 (d.labels = <<>> /\ Len(d.notes) >= 1)

\* The text "{op} expects {count} arguments, but not enough were provided".
NotEnoughArgsText(e) ==
    e.op \o " expects " \o ToString(e.count)
         \o " arguments, but not enough were provided"

\* Where the NotEnoughArgs text goes: one primary label at pos and no note,
\* or no label and one note.
NotEnoughArgsPlacement(e, d) ==
    IF e.span_opt.some
    THEN /\ d.labels = <<[style |-> "Primary", file_id |-> e.span_opt.val.src_id,
                          range |-> Range(e.span_opt.val.start, e.span_opt.val.end),
                          message |-> NotEnoughArgsText(e)]>>
         /\ d.notes = <<>>
    ELSE /\ d.labels = <<>>
         /\ d.notes = <<NotEnoughArgsText(e)>>

\* C6 as stated: the message of a NotEnoughArgs diagnostic is the text
\* "{op} expects {count} arguments, ...", carried by a label or else a note.
C6_Original ==
    (HoldsEval("NotEnoughArgs") /\ diag.some) =>
        /\ diag.val.message = NotEnoughArgsText(err.val.error)
        /\ NotEnoughArgsPlacement(err.val.error, diag.val)

\* C6, amended: the message of a NotEnoughArgs diagnostic is "Not enough
\* arguments"; the text "{op} expects {count} arguments, ..." is carried by
\* exactly one primary label at pos (and no note) when pos is present, and
\* by exactly one note (and no label) when it is absent.
C6_NotEnoughArgsShape ==
    (HoldsEval("NotEnoughArgs") /\ diag.some) =>
        /\ diag.val.message = "Not enough arguments"
        /\ NotEnoughArgsPlacement(err.val.error, diag.val)

C6_Witness ==
    /\ HoldsEval("NotEnoughArgs")
    /\ err.val.error.count = 10
    /\ ~err.val.error.span_opt.some
    /\ diag.some
    /\ Len(diag.val.notes) = 1

\* C7: the registry is append-only: entries keep their identifier, name and
\* contents, none is removed, and every added entry has the synthetic name.
C7_AppendOnly ==
    [][/\ Len(files') >= Len(files)
       /\ SubSeq(files', 1, Len(files)) = files
       /\ \A i \in (Len(files) + 1)..Len(files') :
            files'[i].name = SyntheticName]_vars

C7_Witness ==
    /\ Len(files) >= 3
    /\ files[1] = [name |-> "hello-string", source |-> HELLO_NCL]
    /\ diag.some
    /\ grown = 2

\* C8: nothing is cached: a call registers a new entry for every absent
\* position it anchors, distinct from each other and from all earlier ones,
\* and repeating the call on the same error grows the registry again by the
\* same amount, its labels pointing at identifiers the first call's did not.
C8_NoCaching ==
    [][IsCall =>
        LET ps == LabelledSlots(err.val)
            ls == diag'.val.labels
            fb == {i \in 1..Len(ps) : IsFallback(ps[i])}
        IN  /\ \A i \in fb : ls[i].file_id \in (Len(files) + 1)..Len(files')
            /\ \A i, j \in fb : i # j => ls[i].file_id # ls[j].file_id
            /\ (diag.some /\ fb # {}) =>
                 /\ Len(files') - Len(files) = grown
                 /\ grown > 0
                 /\ \A i \in fb, j \in 1..Len(diag.val.labels) :
                      ls[i].file_id # diag.val.labels[j].file_id]_vars

C8_Witness ==
    /\ HoldsEval("UnboundIdentifier")
    /\ err.val.error = UnboundIdentifier("x", None)
    /\ diag.some
    /\ Len(files) = 3
    /\ files[2].source = "x"
    /\ files[3].source = "x"
    /\ diag.val.labels[1].file_id = 3

\* C9: the BlameError message begins "Blame error: [{tag}].", has the
\* positive prose exactly for positive polarity and the negative prose
\* exactly for negative polarity, ends with the rendered path exactly when
\* the path is not Nil; the only label is primary, at the label's span,
\* with message "bound here"; the registry is unchanged.
C9_BlameShape ==
    [][(IsCall /\ HoldsEval("BlameError")) =>
        LET l == err.val.error.l
            d == diag'.val
        IN  /\ StartsWith(d.message, "Blame error: [" \o l.tag \o "].")
            /\ Contains(d.message, "blame is on the value") <=> l.polarity
            /\ Contains(d.message, "blame is on the context") <=> ~l.polarity
            /\ EndsWith(d.message, TyPath_debug(l.path)) <=> (l.path # TyPath_Nil)
            /\ d.labels = <<[style |-> "Primary", file_id |-> l.span.src_id,
                             range |-> Range(l.span.start, l.span.end),
                             message |-> "bound here"]>>
            /\ files' = files]_vars

C9_Witness ==
    /\ HoldsEval("BlameError")
    /\ ~err.val.error.l.polarity
    /\ err.val.error.l.path # TyPath_Nil
    /\ diag.some
    /\ Contains(diag.val.message, "negative blame")

\* C10: when every position of the error names a registered source id, every
\* label of the diagnostic names a source id registered after the call; the
\* variants without synthetic-anchor fallback leave the registry unchanged.
C10_LabelsRegistered ==
    [][IsCall =>
        /\ (\A s \in AttachedSpans(err.val) : s.src_id \in 1..Len(files)) =>
              \A i \in 1..Len(diag'.val.labels) :
                  diag'.val.labels[i].file_id \in 1..Len(files')
        /\ (err.val.variant = "ParseError"
              \/ err.val.error.variant \in NoFallbackVariants) => files' = files]_vars

C10_Witness ==
    /\ HoldsEval("MergeIncompatibleArgs")
    /\ ~err.val.error.t1.pos.some
    /\ err.val.error.t2.pos = Some(SpanA)
    /\ err.val.error.span_opt = Some(SpanB)
    /\ diag.some
    /\ grown = 1
    /\ Len(files) >= 3
    /\ diag.val.labels[1].file_id = Len(files)

====
